---------------------------- MODULE Spec2Model ----------------------------
(***************************************************************************)
(* A model of backend/app.py, the request handler of YT-Transcripter:      *)
(* POST /api/summarize takes a URL, extracts the video identifier, fetches *)
(* the transcript (English, then Hindi), asks the generative-language API  *)
(* for a summary, splits the answer into prose and bullets, fetches the    *)
(* video metadata and answers.                                             *)
(*                                                                         *)
(* Python strings are sequences of one-character strings; the one code     *)
(* point outside ASCII the code names, U+2022, is the element BULLET.      *)
(* Python values that may be None, or that come out of JSON, are tagged    *)
(* records: [t |-> "null"], [t |-> "str", v |-> chars], [t |-> "list",     *)
(* v |-> sequence], [t |-> "dict", v |-> function on the keys].            *)
(* Every upstream call (transcript provider, generative-language API,      *)
(* metadata API) is one step of the handler whose answer is chosen from a  *)
(* finite set of answers; `calls' is the log of the upstream calls made.   *)
(***************************************************************************)
EXTENDS Naturals, Sequences, FiniteSets

VARIABLES
    pc,          \* where the handler stands: "recv", "en", "hi", "gemini", "meta", "done"
    YT_API_KEY,  \* app.py:20, the metadata API key of the process (None when not configured)
    url,         \* data.get("url"), app.py:142
    vid,         \* app.py:147
    calls,       \* the upstream calls made for this request, in order
    enResult,    \* what YouTubeTranscriptApi.get_transcript(vid, ['en']) did, app.py:44
    hiResult,    \* what list_transcripts / find_transcript(['hi']) / fetch did, app.py:51-52
    transcript,  \* app.py:152
    trimmed,     \* app.py:155
    geminiResp,  \* what requests.post did, app.py:109
    out,         \* app.py:158
    summary,     \* app.py:176
    bullets,     \* app.py:165, after the loop of app.py:168-174
    word_count,  \* app.py:177
    metaResult,  \* what the metadata API did, app.py:69-73
    raised,      \* the exception that reached the handler's except clauses, app.py:192-196
    response     \* the (body, status) the handler returned; status 0 while it runs

vars == <<pc, YT_API_KEY, url, vid, calls, enResult, hiResult, transcript, trimmed,
          geminiResp, out, summary, bullets, word_count, metaResult, raised, response>>

----------------------------------------------------------------------------
(* Python values *)

None == [t |-> "null"]

Str(s) == [t |-> "str", v |-> s]

List(xs) == [t |-> "list", v |-> xs]

Dict(f) == [t |-> "dict", v |-> f]

EmptyDict == Dict([k \in {} |-> None])

\* bool(x) of a Python value
Truthy(x) ==
    CASE x.t = "null" -> FALSE
      [] x.t = "str" -> x.v # <<>>
      [] x.t = "list" -> x.v # <<>>
      [] x.t = "dict" -> DOMAIN x.v # {}

\* U+2022, one character
BULLET == "u2022"

\* the characters str.strip() removes and \s matches (those the model's texts use)
Whitespace == {" ", "\t", "\n", "\r"}

\* [0-9A-Za-z_-], the class of app.py:29-31
IdChars ==
    {"0","1","2","3","4","5","6","7","8","9",
     "A","B","C","D","E","F","G","H","I","J","K","L","M",
     "N","O","P","Q","R","S","T","U","V","W","X","Y","Z",
     "a","b","c","d","e","f","g","h","i","j","k","l","m",
     "n","o","p","q","r","s","t","u","v","w","x","y","z",
     "_","-"}

\* {11} of app.py:29-31
IdLen == 11

\* s.startswith(p)
startswith(s, p) ==
    Len(p) <= Len(s) /\ SubSeq(s, 1, Len(p)) = p

\* sep.join(xs)
RECURSIVE join(_, _)
join(sep, xs) ==
    IF xs = <<>> THEN <<>>
    ELSE IF Len(xs) = 1 THEN xs[1]
    ELSE xs[1] \o sep \o join(sep, Tail(xs))

\* s.lstrip(chars)
RECURSIVE lstrip(_, _)
lstrip(s, chars) ==
    IF s # <<>> /\ s[1] \in chars THEN lstrip(Tail(s), chars) ELSE s

\* s.rstrip() of whitespace
RECURSIVE rstrip(_)
rstrip(s) ==
    IF s # <<>> /\ s[Len(s)] \in Whitespace THEN rstrip(SubSeq(s, 1, Len(s) - 1)) ELSE s

\* s.strip()
strip(s) == rstrip(lstrip(s, Whitespace))

\* s.split(sep) for a one-character sep: every separator cuts, empty pieces are kept
RECURSIVE split_on(_, _, _)
split_on(s, sep, cur) ==
    IF s = <<>> THEN <<cur>>
    ELSE IF s[1] = sep THEN <<cur>> \o split_on(Tail(s), sep, <<>>)
    ELSE split_on(Tail(s), sep, Append(cur, s[1]))

\* len(s.split()): the number of maximal runs of non-whitespace characters
RECURSIVE count_words(_, _)
count_words(s, inWord) ==
    IF s = <<>> THEN 0
    ELSE IF s[1] \in Whitespace THEN count_words(Tail(s), FALSE)
    ELSE (IF inWord THEN 0 ELSE 1) + count_words(Tail(s), TRUE)

----------------------------------------------------------------------------
(* String literals of app.py *)

\* 'v='
PAT_V ==
    <<"v","=">>

\* 'youtu.be/'
PAT_YOUTU_BE ==
    <<"y","o","u","t","u",".","b","e","/">>

\* 'embed/'
PAT_EMBED ==
    <<"e","m","b","e","d","/">>

\* 'Failed to generate summary:'
MARKER ==
    <<"F","a","i","l","e","d"," ","t","o"," ","g","e","n","e","r","a","t","e",
      " ","s","u","m","m","a","r","y",":">>

\* 'No URL provided'
MSG_NO_URL ==
    <<"N","o"," ","U","R","L"," ","p","r","o","v","i","d","e","d">>

\* 'Invalid YouTube URL'
MSG_INVALID_URL ==
    <<"I","n","v","a","l","i","d"," ","Y","o","u","T","u","b","e"," ","U","R",
      "L">>

\* 'Transcript disabled for this video'
MSG_DISABLED ==
    <<"T","r","a","n","s","c","r","i","p","t"," ","d","i","s","a","b","l","e",
      "d"," ","f","o","r"," ","t","h","i","s"," ","v","i","d","e","o">>

\* 'Failed to generate summary: Unexpected API response.'
MSG_UNEXPECTED ==
    <<"F","a","i","l","e","d"," ","t","o"," ","g","e","n","e","r","a","t","e",
      " ","s","u","m","m","a","r","y",":"," ","U","n","e","x","p","e","c","t",
      "e","d"," ","A","P","I"," ","r","e","s","p","o","n","s","e",".">>

\* 'Failed to generate summary: API call error - '
MSG_API_CALL_ERROR ==
    <<"F","a","i","l","e","d"," ","t","o"," ","g","e","n","e","r","a","t","e",
      " ","s","u","m","m","a","r","y",":"," ","A","P","I"," ","c","a","l","l",
      " ","e","r","r","o","r"," ","-"," ">>

\* 'Failed to generate summary: '
MSG_FAILED_SP ==
    <<"F","a","i","l","e","d"," ","t","o"," ","g","e","n","e","r","a","t","e",
      " ","s","u","m","m","a","r","y",":"," ">>

----------------------------------------------------------------------------
(* extract_video_id, app.py:27-37 *)

\* the literal text each pattern of app.py:29-31 starts with, in the list's order
patterns == <<PAT_V, PAT_YOUTU_BE, PAT_EMBED>>

\* pat([0-9A-Za-z_-]{11}) matches s at position p
MatchAt(pat, s, p) ==
    /\ p + Len(pat) + IdLen - 1 <= Len(s)
    /\ SubSeq(s, p, p + Len(pat) - 1) = pat
    /\ \A k \in (p + Len(pat))..(p + Len(pat) + IdLen - 1) : s[k] \in IdChars

\* re.search(pat, s) from position p on: group(1) of the leftmost match, or None
RECURSIVE re_search_from(_, _, _)
re_search_from(pat, s, p) ==
    IF p > Len(s) THEN None
    ELSE IF MatchAt(pat, s, p)
         THEN Str(SubSeq(s, p + Len(pat), p + Len(pat) + IdLen - 1))
         ELSE re_search_from(pat, s, p + 1)

re_search(pat, s) == re_search_from(pat, s, 1)

\* the loop of app.py:33-37 over the patterns still to try
RECURSIVE try_patterns(_, _)
try_patterns(pats, s) ==
    IF pats = <<>> THEN None
    ELSE LET m == re_search(Head(pats), s)
         IN  IF m # None THEN m ELSE try_patterns(Tail(pats), s)

\* a plausible slip: the patterns are tried in the opposite order
extract_video_id_reversed(s) ==
    try_patterns(<<PAT_EMBED, PAT_YOUTU_BE, PAT_V>>, s)

extract_video_id(s) == try_patterns(patterns, s)

----------------------------------------------------------------------------
(* Requests *)

\* 'dQw4w9WgXcQ'
TOK_A ==
    <<"d","Q","w","4","w","9","W","g","X","c","Q">>

\* '9bZkp7q19f0'
TOK_B ==
    <<"9","b","Z","k","p","7","q","1","9","f","0">>

\* 'abcDEF_-12'
TOK_SHORT ==
    <<"a","b","c","D","E","F","_","-","1","2">>

\* 'https://www.youtube.com/'
SEG_HOST ==
    <<"h","t","t","p","s",":","/","/","w","w","w",".","y","o","u","t","u","b",
      "e",".","c","o","m","/">>

\* 'watch?'
SEG_WATCH ==
    <<"w","a","t","c","h","?">>

\* 'https://'
SEG_SCHEME ==
    <<"h","t","t","p","s",":","/","/">>

\* how many segments a URL of the extractor's check is made of, at most
MaxSegs == 4

Segments ==
    {PAT_V, PAT_YOUTU_BE, PAT_EMBED, TOK_A, TOK_B, TOK_SHORT, SEG_HOST, SEG_WATCH}

RECURSIVE concat(_)
concat(xs) == IF xs = <<>> THEN <<>> ELSE Head(xs) \o concat(Tail(xs))

\* the URLs of the extractor's check: every concatenation of 1..MaxSegs segments
ExtractUrls ==
    {concat(segs) : segs \in UNION {[1..n -> Segments] : n \in 1..MaxSegs}}

\* the URLs of the whole handler's check
HandlerUrls ==
    {SEG_HOST,
     SEG_HOST \o SEG_WATCH \o PAT_V \o TOK_A,
     SEG_SCHEME \o PAT_YOUTU_BE \o TOK_B,
     SEG_HOST \o SEG_WATCH \o PAT_V \o TOK_SHORT}

\* request.get_json() or {} followed by data.get("url"), app.py:141-142:
\* the key is missing (None) or holds a string, the empty one included
HandlerInputs == {None, Str(<<>>)} \cup {Str(u) : u \in HandlerUrls}

----------------------------------------------------------------------------
(* summarize_video, app.py:139-196 *)

NoBody == [k \in {} |-> <<>>]

NoResponse == [status |-> 0, body |-> NoBody]

NotCalled == [kind |-> "none"]

\* jsonify({"error": msg}), status
ErrorResponse(status, msg) == [status |-> status, body |-> [error |-> msg]]

\* a plausible slip: the identifier is not checked before use
check_input_unchecked(u) ==
    IF ~Truthy(u) THEN [response |-> ErrorResponse(400, MSG_NO_URL), vid |-> None]
    ELSE [response |-> NoResponse, vid |-> extract_video_id(u.v)]

\* app.py:144-149: the answer to a request that stops at its input, or NoResponse
\* and the identifier
check_input(u) ==
    IF ~Truthy(u) THEN [response |-> ErrorResponse(400, MSG_NO_URL), vid |-> None]
    ELSE LET v == extract_video_id(u.v)
         IN  IF ~Truthy(v)
             THEN [response |-> ErrorResponse(400, MSG_INVALID_URL), vid |-> v]
             ELSE [response |-> NoResponse, vid |-> v]

\* app.py:141-149
Receive ==
    /\ pc = "recv"
    /\ LET r == check_input(url)
       IN  /\ vid' = r.vid
           /\ response' = r.response
           /\ pc' = IF r.response = NoResponse THEN "en" ELSE "done"
    /\ UNCHANGED <<YT_API_KEY, url, calls, enResult, hiResult, transcript, trimmed,
                   geminiResp, out, summary, bullets, word_count, metaResult, raised>>

\* the state a request starts in, given the process's key and the request's url
Start(key, u) ==
    /\ pc = "recv"
    /\ YT_API_KEY = key
    /\ url = u
    /\ vid = None
    /\ calls = <<>>
    /\ enResult = NotCalled
    /\ hiResult = NotCalled
    /\ transcript = None
    /\ trimmed = None
    /\ geminiResp = NotCalled
    /\ out = None
    /\ summary = None
    /\ bullets = <<>>
    /\ word_count = 0
    /\ metaResult = NotCalled
    /\ raised = NotCalled
    /\ response = NoResponse

----------------------------------------------------------------------------
(* The transcript provider and get_transcript_fallback, app.py:41-55 *)

\* an exception object: its class and str(e)
Exc(type, msg) == [type |-> type, msg |-> msg]

\* what an upstream call did: it returned a value or raised, after the calls named
Returned(value, made) == [kind |-> "ok", value |-> value, exc |-> NotCalled, calls |-> made]

Raised(exc, made) == [kind |-> "raise", value |-> None, exc |-> exc, calls |-> made]

\* a transcript entry as the provider gives it: a dict, or an object with attributes
Obj(attrs) == [t |-> "obj", v |-> attrs]

\* 'Hello'
TXT_HELLO ==
    <<"H","e","l","l","o">>

\* 'big world'
TXT_BIG_WORLD ==
    <<"b","i","g"," ","w","o","r","l","d">>

\* 'namaste'
TXT_NAMASTE ==
    <<"n","a","m","a","s","t","e">>

\* 'ji'
TXT_JI ==
    <<"j","i">>

\* 'Subtitles are disabled for this video'
ERR_DISABLED ==
    <<"S","u","b","t","i","t","l","e","s"," ","a","r","e"," ","d","i","s","a",
      "b","l","e","d"," ","f","o","r"," ","t","h","i","s"," ","v","i","d","e",
      "o">>

\* "No transcripts were found for ['en']"
ERR_NO_EN ==
    <<"N","o"," ","t","r","a","n","s","c","r","i","p","t","s"," ","w","e","r",
      "e"," ","f","o","u","n","d"," ","f","o","r"," ","[","'","e","n","'","]">>

\* "No transcripts were found for ['hi']"
ERR_NO_HI ==
    <<"N","o"," ","t","r","a","n","s","c","r","i","p","t","s"," ","w","e","r",
      "e"," ","f","o","u","n","d"," ","f","o","r"," ","[","'","h","i","'","]">>

\* 'Connection aborted'
ERR_NET ==
    <<"C","o","n","n","e","c","t","i","o","n"," ","a","b","o","r","t","e","d">>

\* 'Too many requests'
ERR_BLOCKED ==
    <<"T","o","o"," ","m","a","n","y"," ","r","e","q","u","e","s","t","s">>

\* the English track: two dicts with a text and one without
EN_ENTRIES ==
    <<Dict([text |-> Str(TXT_HELLO), start |-> 0]),
      Dict([start |-> 1]),
      Dict([text |-> Str(TXT_BIG_WORLD), start |-> 2])>>

\* the Hindi track: objects with a text attribute
HI_ENTRIES ==
    <<Obj([text |-> Str(TXT_NAMASTE), start |-> 0]),
      Obj([text |-> Str(TXT_JI), start |-> 1])>>

\* YouTubeTranscriptApi.get_transcript(video_id, languages=['en']), app.py:44
EnglishResults ==
    {Returned(EN_ENTRIES, <<"get_transcript">>),
     Raised(Exc("TranscriptsDisabled", ERR_DISABLED), <<"get_transcript">>),
     Raised(Exc("NoTranscriptFound", ERR_NO_EN), <<"get_transcript">>),
     Raised(Exc("ConnectionError", ERR_NET), <<"get_transcript">>)}

\* list_transcripts(video_id), find_transcript(['hi']) and fetch(), app.py:51-52:
\* the listing fails, no Hindi track is listed, the fetch fails, or all succeed
HindiResults ==
    {Returned(HI_ENTRIES, <<"list_transcripts", "fetch">>),
     Raised(Exc("ConnectionError", ERR_NET), <<"list_transcripts">>),
     Raised(Exc("TranscriptsDisabled", ERR_DISABLED), <<"list_transcripts">>),
     Raised(Exc("NoTranscriptFound", ERR_NO_HI), <<"list_transcripts">>),
     Raised(Exc("RequestBlocked", ERR_BLOCKED), <<"list_transcripts", "fetch">>)}

\* what a function did: it returned a value or let an exception out
Return(value) == [kind |-> "return", value |-> value, exc |-> NotCalled]

Raise(exc) == [kind |-> "raise", value |-> None, exc |-> exc]

\* a plausible slip: the Hindi track is tried after every English failure
needs_fallback_always(en) == en.kind = "raise"

\* app.py:45-49: the English failure is not TranscriptsDisabled, so Hindi is tried
needs_fallback(en) ==
    en.kind = "raise" /\ en.exc.type # "TranscriptsDisabled"

\* a plausible slip: the Hindi entries are fetched and dropped
get_transcript_fallback_drops_hindi(en, hi) ==
    IF en.kind = "ok" THEN Return(en.value)
    ELSE IF ~needs_fallback(en) THEN Raise(en.exc)
    ELSE IF hi.kind = "ok" THEN Raise(en.exc)
    ELSE Raise(hi.exc)

\* app.py:41-55, given what the English call did and what the Hindi calls did
\* (consulted only when needs_fallback): the `e' of app.py:53-55 is the exception
\* of the inner try, the Hindi one
get_transcript_fallback(en, hi) ==
    IF en.kind = "ok" THEN Return(en.value)
    ELSE IF ~needs_fallback(en) THEN Raise(en.exc)
    ELSE IF hi.kind = "ok" THEN Return(hi.value)
    ELSE Raise(hi.exc)

\* max_chars of app.py:59
MAX_CHARS == 4000

\* app.py:59-60
trim_to_char_limit(text, max_chars) ==
    IF Len(text) <= max_chars THEN text ELSE SubSeq(text, 1, max_chars)

\* app.py:153, one entry: entry.get("text", "") of a dict, getattr(entry, "text", "")
\* of anything else
entry_text(entry) ==
    IF "text" \in DOMAIN entry.v THEN entry.v.text.v ELSE <<>>

\* app.py:153-155
trimmed_text(entries) ==
    trim_to_char_limit(
        join(<<" ">>, [i \in 1..Len(entries) |-> entry_text(entries[i])]), MAX_CHARS)

\* a plausible slip: the exception text is reported without the prefix
except_clauses_bare(e) ==
    IF e.type = "TranscriptsDisabled"
    THEN ErrorResponse(400, MSG_DISABLED)
    ELSE ErrorResponse(500, e.msg)

\* app.py:192-196: the answer to an exception raised inside the try block
except_clauses(e) ==
    IF e.type = "TranscriptsDisabled"
    THEN ErrorResponse(400, MSG_DISABLED)
    ELSE ErrorResponse(500, MSG_FAILED_SP \o e.msg)

\* app.py:152-155 and 192-196: the handler after get_transcript_fallback
AfterTranscript(res) ==
    IF res.kind = "return"
    THEN /\ transcript' = List(res.value)
         /\ trimmed' = Str(trimmed_text(res.value))
         /\ pc' = "gemini"
         /\ UNCHANGED <<raised, response>>
    ELSE /\ raised' = res.exc
         /\ response' = except_clauses(res.exc)
         /\ pc' = "done"
         /\ UNCHANGED <<transcript, trimmed>>

\* app.py:44-49: the English retrieval
English ==
    /\ pc = "en"
    /\ \E r \in EnglishResults :
          /\ enResult' = r
          /\ calls' = calls \o r.calls
          /\ IF needs_fallback(r)
             THEN /\ pc' = "hi"
                  /\ UNCHANGED <<transcript, trimmed, raised, response>>
             ELSE AfterTranscript(get_transcript_fallback(r, NotCalled))
    /\ UNCHANGED <<YT_API_KEY, url, vid, hiResult, geminiResp, out, summary, bullets,
                   word_count, metaResult>>

\* app.py:50-55: the Hindi retrieval
Hindi ==
    /\ pc = "hi"
    /\ \E r \in HindiResults :
          /\ hiResult' = r
          /\ calls' = calls \o r.calls
          /\ AfterTranscript(get_transcript_fallback(enResult, r))
    /\ UNCHANGED <<YT_API_KEY, url, vid, enResult, geminiResp, out, summary, bullets,
                   word_count, metaResult>>

----------------------------------------------------------------------------
(* generate_summary_with_gemini, app.py:90-135 *)

\* 'NoneType'
TYPENAME_NONE ==
    <<"N","o","n","e","T","y","p","e">>

\* 'str'
TYPENAME_STR ==
    <<"s","t","r">>

\* 'list'
TYPENAME_LIST ==
    <<"l","i","s","t">>

\* 'dict'
TYPENAME_DICT ==
    <<"d","i","c","t">>

\* "' object has no attribute '"
MSG_NO_ATTRIBUTE ==
    <<"'"," ","o","b","j","e","c","t"," ","h","a","s"," ","n","o"," ","a","t",
      "t","r","i","b","u","t","e"," ","'">>

\* 'get'
ATTR_GET ==
    <<"g","e","t">>

\* 'startswith'
ATTR_STARTSWITH ==
    <<"s","t","a","r","t","s","w","i","t","h">>

\* 'Max retries exceeded'
ERR_CONNECT ==
    <<"M","a","x"," ","r","e","t","r","i","e","s"," ","e","x","c","e","e","d",
      "e","d">>

\* '403 Client Error: Forbidden'
ERR_HTTP_403 ==
    <<"4","0","3"," ","C","l","i","e","n","t"," ","E","r","r","o","r",":"," ",
      "F","o","r","b","i","d","d","e","n">>

\* '500 Server Error: Internal Server Error'
ERR_HTTP_500 ==
    <<"5","0","0"," ","S","e","r","v","e","r"," ","E","r","r","o","r",":"," ",
      "I","n","t","e","r","n","a","l"," ","S","e","r","v","e","r"," ","E","r",
      "r","o","r">>

\* 'Expecting value: line 1 column 1 (char 0)'
ERR_JSON ==
    <<"E","x","p","e","c","t","i","n","g"," ","v","a","l","u","e",":"," ","l",
      "i","n","e"," ","1"," ","c","o","l","u","m","n"," ","1"," ","(","c","h",
      "a","r"," ","0",")">>

\* type(x).__name__
TypeName(x) ==
    CASE x.t = "null" -> TYPENAME_NONE
      [] x.t = "str" -> TYPENAME_STR
      [] x.t = "list" -> TYPENAME_LIST
      [] x.t = "dict" -> TYPENAME_DICT

\* the AttributeError of x.attr on a value with no such attribute
AttributeError(x, attr) ==
    Exc("AttributeError",
        <<"'">> \o TypeName(x) \o MSG_NO_ATTRIBUTE \o attr \o <<"'">>)

\* d.get(k) of a dict
get(d, k) == IF k \in DOMAIN d.v THEN d.v[k] ELSE None

\* the JSON the generative-language API answers with
Part(text) == Dict([text |-> text])

Content(parts) == Dict([parts |-> parts])

Candidate(content) == Dict([content |-> content])

Result(candidates) == Dict([candidates |-> candidates])

\* the answer with every expected field, whose first candidate's first part says text
Full(text) ==
    Result(List(<<Candidate(Content(List(<<Part(Str(text))>>)))>>))

\* the same with a second part and a second candidate after the first
FullMany(text) ==
    Result(List(<<Candidate(Content(List(<<Part(Str(text)), Part(Str(TXT_JI))>>))),
                  Candidate(Content(List(<<Part(Str(TXT_HELLO))>>)))>>))

\* the answers that lack a field, or hold a value of another type in its place
Shapes ==
    {EmptyDict,
     Result(None),
     Result(List(<<>>)),
     Result(List(<<EmptyDict>>)),
     Result(List(<<None>>)),
     Result(List(<<Candidate(None)>>)),
     Result(List(<<Candidate(EmptyDict)>>)),
     Result(List(<<Candidate(Dict([role |-> Str(TXT_HELLO)]))>>)),
     Result(List(<<Candidate(Str(TXT_HELLO))>>)),
     Result(List(<<Candidate(Content(None))>>)),
     Result(List(<<Candidate(Content(List(<<>>)))>>)),
     Result(List(<<Candidate(Content(List(<<EmptyDict>>)))>>)),
     Result(List(<<Candidate(Content(List(<<Part(None)>>)))>>)),
     Result(List(<<Candidate(Content(List(<<Str(TXT_HELLO)>>)))>>)),
     List(<<>>)}

\* requests.post raised, or answered with a status and a body (NotJson: no JSON)
NotJson == [t |-> "notjson"]

HttpResponse(status_code, reason, json) ==
    [kind |-> "ok", status_code |-> status_code, reason |-> reason, json |-> json,
     exc |-> NotCalled]

PostRaised(exc) ==
    [kind |-> "raise", status_code |-> 0, reason |-> <<>>, json |-> NotJson, exc |-> exc]

\* xs[0] of a truthy candidates or parts value; the model's are lists
first(xs) == xs.v[1]

\* app.py:117-125 on result = response.json(): the text returned, or the exception
\* raised on the way
read_result(result) ==
    IF result.t # "dict" THEN Raise(AttributeError(result, ATTR_GET))
    ELSE IF ~Truthy(get(result, "candidates")) THEN Return(Str(MSG_UNEXPECTED))
    ELSE LET candidate == first(get(result, "candidates"))
    IN  IF candidate.t # "dict" THEN Raise(AttributeError(candidate, ATTR_GET))
        ELSE IF ~Truthy(get(candidate, "content")) THEN Return(Str(MSG_UNEXPECTED))
        ELSE LET content == get(candidate, "content")
        IN  IF content.t # "dict" THEN Raise(AttributeError(content, ATTR_GET))
            ELSE IF ~Truthy(get(content, "parts")) THEN Return(Str(MSG_UNEXPECTED))
            ELSE LET part == first(get(content, "parts"))
            IN  IF part.t # "dict" THEN Raise(AttributeError(part, ATTR_GET))
                ELSE Return(get(part, "text"))

\* app.py:108-135 on what requests.post did. raise_for_status raises HTTPError, and
\* response.json() raises requests' JSONDecodeError, both RequestExceptions
\* (app.py:126-132); any other exception takes app.py:133-135
generate_summary_with_gemini(resp) ==
    IF resp.kind = "raise" THEN Str(MSG_API_CALL_ERROR \o resp.exc.msg)
    ELSE IF 400 <= resp.status_code /\ resp.status_code < 600
         THEN Str(MSG_API_CALL_ERROR \o resp.reason)
    ELSE IF resp.json = NotJson THEN Str(MSG_API_CALL_ERROR \o ERR_JSON)
    ELSE LET r == read_result(resp.json)
         IN  IF r.kind = "raise" THEN Str(MSG_FAILED_SP \o r.exc.msg) ELSE r.value

----------------------------------------------------------------------------
(* The texts the generative-language API answers with *)

\* 'Intro line.'
LINE_PROSE ==
    <<"I","n","t","r","o"," ","l","i","n","e",".">>

\* '- point one'
LINE_DASH ==
    <<"-"," ","p","o","i","n","t"," ","o","n","e">>

\* '• point two'
LINE_DOT ==
    <<BULLET," ","p","o","i","n","t"," ","t","w","o">>

\* '-x'
LINE_NOSPACE ==
    <<"-","x">>

\* '-\t- y '
LINE_TAB ==
    <<"-","\t","-"," ","y"," ">>

\* ' '
LINE_BLANK ==
    <<" ">>

\* how many lines an answer's text has, at most
MaxLines == 3

Lines == {LINE_PROSE, LINE_DASH, LINE_DOT, LINE_NOSPACE, LINE_TAB, LINE_BLANK, <<>>}

\* every text of 1..MaxLines lines, and two that start with the failure marker
Texts ==
    {join(<<"\n">>, ls) : ls \in UNION {[1..n -> Lines] : n \in 1..MaxLines}}
    \cup {MARKER \o LINE_BLANK \o LINE_PROSE,
          MARKER \o <<"\n">> \o LINE_DASH}

\* requests.post(...), app.py:109-113
GeminiResponses ==
    {PostRaised(Exc("ConnectionError", ERR_CONNECT)),
     HttpResponse(403, ERR_HTTP_403, NotJson),
     HttpResponse(500, ERR_HTTP_500, EmptyDict),
     HttpResponse(200, <<>>, NotJson)}
    \cup {HttpResponse(200, <<>>, s) : s \in Shapes}
    \cup {HttpResponse(200, <<>>, Full(t)) : t \in Texts}
    \cup {HttpResponse(200, <<>>, FullMany(LINE_PROSE))}

----------------------------------------------------------------------------
(* summarize_video after the transcript, app.py:158-190 *)

\* re.match(r"^[\-•]\s+", line), app.py:169
re_match_bullet(line) ==
    Len(line) >= 2 /\ line[1] \in {"-", BULLET} /\ line[2] \in Whitespace

\* a plausible slip: hit_bullets follows the current line instead of latching
RECURSIVE scan_lines_no_latch(_, _, _, _)
scan_lines_no_latch(lines, hit_bullets, summary_lines, bs) ==
    IF lines = <<>> THEN [summary_lines |-> summary_lines, bullets |-> bs]
    ELSE LET line == Head(lines)
             hit == re_match_bullet(line)
         IN  IF hit
             THEN scan_lines_no_latch(Tail(lines), hit, summary_lines,
                      Append(bs, strip(lstrip(line, {"-", BULLET, " "}))))
             ELSE scan_lines_no_latch(Tail(lines), hit, Append(summary_lines, line), bs)

\* the loop of app.py:168-174 over the lines still to read
RECURSIVE scan_lines(_, _, _, _)
scan_lines(lines, hit_bullets, summary_lines, bs) ==
    IF lines = <<>> THEN [summary_lines |-> summary_lines, bullets |-> bs]
    ELSE LET line == Head(lines)
             hit == hit_bullets \/ re_match_bullet(line)
         IN  IF hit
             THEN scan_lines(Tail(lines), hit, summary_lines,
                      Append(bs, strip(lstrip(line, {"-", BULLET, " "}))))
             ELSE scan_lines(Tail(lines), hit, Append(summary_lines, line), bs)

\* a plausible slip: only the client's own "API call error" texts are failures
is_failure_api_only(text) == startswith(text, MSG_API_CALL_ERROR)

\* out.startswith("Failed to generate summary:"), app.py:161
is_failure(text) == startswith(text, MARKER)

\* app.py:158-178 and 192-196: the handler after generate_summary_with_gemini
AfterSummary(o) ==
    IF o.t # "str"
    THEN /\ raised' = AttributeError(o, ATTR_STARTSWITH)
         /\ response' = except_clauses(AttributeError(o, ATTR_STARTSWITH))
         /\ pc' = "done"
         /\ UNCHANGED <<summary, bullets, word_count>>
    ELSE IF is_failure(o.v)
    THEN /\ response' = ErrorResponse(500, o.v)
         /\ pc' = "done"
         /\ UNCHANGED <<summary, bullets, word_count, raised>>
    ELSE LET scanned == scan_lines(split_on(o.v, "\n", <<>>), FALSE, <<>>, <<>>)
         IN  /\ summary' = Str(strip(join(<<" ">>, scanned.summary_lines)))
             /\ bullets' = scanned.bullets
             /\ word_count' = count_words(trimmed.v, FALSE)
             /\ pc' = "meta"
             /\ UNCHANGED <<raised, response>>

\* app.py:158: the one call of the generative-language API
Gemini ==
    /\ pc = "gemini"
    /\ \E resp \in GeminiResponses :
          /\ geminiResp' = resp
          /\ calls' = Append(calls, "generateContent")
          /\ out' = generate_summary_with_gemini(resp)
          /\ AfterSummary(generate_summary_with_gemini(resp))
    /\ UNCHANGED <<YT_API_KEY, url, vid, enResult, hiResult, transcript, trimmed,
                   metaResult>>

----------------------------------------------------------------------------
(* fetch_video_info, app.py:64-86 *)

\* 'AIzaSy'
KEY ==
    <<"A","I","z","a","S","y">>

\* 'A title'
TXT_TITLE ==
    <<"A"," ","t","i","t","l","e">>

\* 'A channel'
TXT_CHANNEL ==
    <<"A"," ","c","h","a","n","n","e","l">>

\* '2024-01-01T00:00:00Z'
TXT_DATE ==
    <<"2","0","2","4","-","0","1","-","0","1","T","0","0",":","0","0",":","0",
      "0","Z">>

\* 'quotaExceeded'
ERR_QUOTA ==
    <<"q","u","o","t","a","E","x","c","e","e","d","e","d">>

\* "'snippet'"
ERR_KEYERROR_SNIPPET ==
    <<"'","s","n","i","p","p","e","t","'">>

\* 'AI'
TAG_AI ==
    <<"A","I">>

\* 'Gemini'
TAG_GEMINI ==
    <<"G","e","m","i","n","i">>

\* 'YouTube'
TAG_YOUTUBE ==
    <<"Y","o","u","T","u","b","e">>

\* 'Summary'
TAG_SUMMARY ==
    <<"S","u","m","m","a","r","y">>

\* youtube.videos().list(part="snippet", id=video_id).execute(), app.py:69-73
MetaResults ==
    {Raised(Exc("HttpError", ERR_QUOTA), <<"videos.list">>),
     Returned(EmptyDict, <<"videos.list">>),
     Returned(Dict([items |-> List(<<>>)]), <<"videos.list">>),
     Returned(Dict([items |-> List(<<Dict([id |-> Str(TOK_A)])>>)]), <<"videos.list">>),
     Returned(Dict([items |-> List(<<Dict([snippet |->
         Dict([title |-> Str(TXT_TITLE), publishedAt |-> Str(TXT_DATE)])])>>)]),
         <<"videos.list">>),
     Returned(Dict([items |-> List(<<Dict([snippet |->
         Dict([title |-> Str(TXT_TITLE), channelTitle |-> Str(TXT_CHANNEL),
               publishedAt |-> Str(TXT_DATE)])])>>)]), <<"videos.list">>)}

\* app.py:78-83
snippet_info(snip) ==
    Dict([title |-> get(snip, "title"),
          channel |-> get(snip, "channelTitle"),
          publishedAt |-> get(snip, "publishedAt")])

\* a plausible slip: no try around the API call, so its exception gets out
fetch_video_info_unguarded(key, r) ==
    IF ~Truthy(key) THEN Return(EmptyDict)
    ELSE IF r.kind = "raise" THEN Raise(r.exc)
    ELSE IF ~Truthy(IF "items" \in DOMAIN r.value.v THEN r.value.v.items ELSE List(<<>>))
         THEN Return(EmptyDict)
    ELSE IF "snippet" \notin DOMAIN first(r.value.v.items).v
         THEN Raise(Exc("KeyError", ERR_KEYERROR_SNIPPET))
    ELSE Return(snippet_info(first(r.value.v.items).v.snippet))

\* app.py:64-86, given the key and what the API call did (not consulted without a
\* key): every exception of the try block ends in {}
fetch_video_info(key, r) ==
    IF ~Truthy(key) THEN Return(EmptyDict)
    ELSE IF r.kind = "raise" THEN Return(EmptyDict)
    ELSE IF ~Truthy(IF "items" \in DOMAIN r.value.v THEN r.value.v.items ELSE List(<<>>))
         THEN Return(EmptyDict)
    ELSE IF "snippet" \notin DOMAIN first(r.value.v.items).v THEN Return(EmptyDict)
    ELSE Return(snippet_info(first(r.value.v.items).v.snippet))

\* app.py:186
TAGS == <<TAG_AI, TAG_GEMINI, TAG_YOUTUBE, TAG_SUMMARY>>

\* [b for b in bullets if b], app.py:185
RECURSIVE non_empty(_)
non_empty(bs) ==
    IF bs = <<>> THEN <<>>
    ELSE IF Head(bs) # <<>> THEN <<Head(bs)>> \o non_empty(Tail(bs))
    ELSE non_empty(Tail(bs))

\* app.py:180-196: the handler after fetch_video_info. readingTime, app.py:178, is
\* round(word_count / 200, 1), a function of wordCount alone, and is left out
AfterVideoInfo(info) ==
    IF info.kind = "return"
    THEN /\ response' =
               [status |-> 200,
                body |-> [transcript |-> trimmed.v,
                          summary |-> summary.v,
                          keyPoints |-> non_empty(bullets),
                          tags |-> TAGS,
                          wordCount |-> word_count,
                          videoInfo |-> info.value]]
         /\ UNCHANGED raised
    ELSE /\ raised' = info.exc
         /\ response' = except_clauses(info.exc)

\* app.py:65-67: no key, no call
VideoInfoNoKey ==
    /\ ~Truthy(YT_API_KEY)
    /\ AfterVideoInfo(fetch_video_info(YT_API_KEY, NotCalled))
    /\ UNCHANGED <<calls, metaResult>>

\* app.py:68-86: the metadata API is called
VideoInfoCall ==
    /\ Truthy(YT_API_KEY)
    /\ \E r \in MetaResults :
          /\ metaResult' = r
          /\ calls' = calls \o r.calls
          /\ AfterVideoInfo(fetch_video_info(YT_API_KEY, r))

\* app.py:180-190
VideoInfo ==
    /\ pc = "meta"
    /\ pc' = "done"
    /\ (VideoInfoNoKey \/ VideoInfoCall)
    /\ UNCHANGED <<YT_API_KEY, url, vid, enResult, hiResult, transcript, trimmed,
                   geminiResp, out, summary, bullets, word_count>>

----------------------------------------------------------------------------
(* Specifications *)

\* the extractor's check: one request per URL, followed to the end of app.py:149
InitExtract == \E u \in ExtractUrls : Start(None, Str(u))

SpecExtract == InitExtract /\ [][Receive]_vars

\* the handler's check: one request per key and url, followed to its answer
Init == \E key \in {None, Str(KEY)} : \E u \in HandlerInputs : Start(key, u)

Next == Receive \/ English \/ Hindi \/ Gemini \/ VideoInfo

Spec == Init /\ [][Next]_vars

----------------------------------------------------------------------------
(* The claims *)

\* the upstream call named was made
Called(name) == \E i \in 1..Len(calls) : calls[i] = name

\* how often the upstream call named was made
TimesCalled(name) == Cardinality({i \in 1..Len(calls) : calls[i] = name})

\* the English retrieval failed with an error other than TranscriptsDisabled
EnglishFailedOtherwise ==
    enResult.kind = "raise" /\ enResult.exc.type # "TranscriptsDisabled"

\* C1, as claimed: when the English retrieval fails with an error other than
\* transcripts-disabled and the Hindi retrieval fails too, the exception that leaves
\* get_transcript_fallback is the English one.
C1_EnglishErrorPropagates ==
    (EnglishFailedOtherwise /\ hiResult.kind = "raise") => raised = enResult.exc

\* C2: when the English retrieval fails with TranscriptsDisabled, no Hindi retrieval,
\* no summarizer call and no metadata call is made, and the answer is 400 with
\* "Transcript disabled for this video".
C2_DisabledEndsRequest ==
    (enResult.kind = "raise" /\ enResult.exc.type = "TranscriptsDisabled") =>
        /\ calls = <<"get_transcript">>
        /\ hiResult = NotCalled
        /\ geminiResp = NotCalled
        /\ metaResult = NotCalled
        /\ pc = "done"
        /\ response = [status |-> 400, body |-> [error |-> MSG_DISABLED]]

C2_Witness ==
    /\ pc = "done"
    /\ enResult.kind = "raise"
    /\ enResult.exc.type = "TranscriptsDisabled"
    /\ response.status = 400

\* the literal lit, followed by IdLen identifier characters, stands in s at p
Occurs(lit, s, p) ==
    /\ p + Len(lit) + IdLen - 1 <= Len(s)
    /\ \A k \in 1..Len(lit) : s[p + k - 1] = lit[k]
    /\ \A k \in 1..IdLen : s[p + Len(lit) + k - 1] \in IdChars

\* where lit, followed by an identifier, stands in s
Hits(lit, s) == {p \in 1..Len(s) : Occurs(lit, s, p)}

\* the identifier after the leftmost place where lit stands in s
Captured(lit, s) ==
    LET p == CHOOSE q \in Hits(lit, s) : \A r \in Hits(lit, s) : q <= r
    IN  [k \in 1..IdLen |-> s[p + Len(lit) + k - 1]]

\* C3: a request without a url, or with an empty one, is answered 400 "No URL
\* provided", one whose url holds no identifier 400 "Invalid YouTube URL", and
\* neither makes any upstream call.
C3_InputErrors ==
    (pc # "recv") =>
        /\ ~Truthy(url) =>
              /\ pc = "done"
              /\ response = [status |-> 400, body |-> [error |-> MSG_NO_URL]]
              /\ calls = <<>>
        /\ (Truthy(url) /\ Hits(PAT_V, url.v) = {} /\ Hits(PAT_YOUTU_BE, url.v) = {}
                /\ Hits(PAT_EMBED, url.v) = {}) =>
              /\ pc = "done"
              /\ response = [status |-> 400, body |-> [error |-> MSG_INVALID_URL]]
              /\ calls = <<>>

C3_Witness ==
    /\ pc = "done"
    /\ url = Str(SEG_HOST \o SEG_WATCH \o PAT_V \o TOK_SHORT)
    /\ response.status = 400
    /\ calls = <<>>

\* the answer of the generative-language API has all of candidates, content, parts
\* and text, the text a string
HasAllFields(resp) ==
    /\ resp.kind = "ok" /\ resp.status_code = 200 /\ resp.json.t = "dict"
    /\ "candidates" \in DOMAIN resp.json.v
    /\ resp.json.v.candidates.t = "list" /\ resp.json.v.candidates.v # <<>>
    /\ LET c == resp.json.v.candidates.v[1]
       IN  /\ c.t = "dict" /\ "content" \in DOMAIN c.v /\ c.v.content.t = "dict"
           /\ "parts" \in DOMAIN c.v.content.v
           /\ c.v.content.v.parts.t = "list" /\ c.v.content.v.parts.v # <<>>
           /\ LET p == c.v.content.v.parts.v[1]
              IN  p.t = "dict" /\ "text" \in DOMAIN p.v /\ p.v.text.t = "str"

\* C4, as claimed: generate_summary_with_gemini returns a string whatever happens:
\* the first candidate's text when every field is there, and otherwise a string
\* that begins with "Failed to generate summary:".
C4_AlwaysAString ==
    (geminiResp # NotCalled) =>
        /\ out.t = "str"
        /\ IF HasAllFields(geminiResp)
           THEN out = geminiResp.json.v.candidates.v[1].v.content.v.parts.v[1].v.text
           ELSE startswith(out.v, MARKER)

\* C5: when the summarizer's output begins with "Failed to generate summary:", the
\* answer is 500 with exactly that output as its error, nothing is split and no
\* metadata call is made.
C5_FailureMarkerEndsRequest ==
    (out.t = "str" /\ startswith(out.v, MARKER)) =>
        /\ pc = "done"
        /\ response = [status |-> 500, body |-> [error |-> out.v]]
        /\ summary = None
        /\ bullets = <<>>
        /\ metaResult = NotCalled
        /\ ~Called("videos.list")

C5_Witness ==
    /\ pc = "done"
    /\ out = Str(MSG_UNEXPECTED)
    /\ response.status = 500

\* C6, as claimed: an exception other than TranscriptsDisabled that reaches the
\* handler's except clauses is answered 500 with str(e) as the error.
C6_ErrorIsExceptionText ==
    (raised # NotCalled /\ raised.type # "TranscriptsDisabled") =>
        response = [status |-> 500, body |-> [error |-> raised.msg]]

\* C6, amended: an exception other than TranscriptsDisabled that reaches the
\* handler's except clauses is answered 500 with "Failed to generate summary: "
\* followed by str(e) as the error.
C6_ErrorIsPrefixedExceptionText ==
    (raised # NotCalled /\ raised.type # "TranscriptsDisabled") =>
        /\ pc = "done"
        /\ response.status = 500
        /\ response.body.error = MSG_FAILED_SP \o raised.msg

C6_Witness ==
    /\ pc = "done"
    /\ EnglishFailedOtherwise
    /\ hiResult.kind = "raise"
    /\ raised # NotCalled
    /\ raised.type # "TranscriptsDisabled"
    /\ response.status = 500

\* the metadata fetch failed: no key, an exception of the API call, no items, or
\* an item without a snippet
MetadataFailed ==
    \/ YT_API_KEY = None
    \/ metaResult.kind = "raise"
    \/ /\ metaResult.kind = "ok"
       /\ \/ "items" \notin DOMAIN metaResult.value.v
          \/ metaResult.value.v.items.v = <<>>
          \/ "snippet" \notin DOMAIN metaResult.value.v.items.v[1].v

\* C7: when the transcript and the summary were obtained and the metadata fetch
\* fails, the answer is still 200, its videoInfo is the empty mapping and its other
\* fields are what the handler computed before the fetch.
C7_MetadataFailureSwallowed ==
    (pc = "done" /\ summary # None /\ MetadataFailed) =>
        /\ response.status = 200
        /\ response.body.videoInfo = EmptyDict
        /\ response.body.transcript = trimmed.v
        /\ response.body.summary = summary.v
        /\ response.body.keyPoints = non_empty(bullets)
        /\ response.body.tags = TAGS
        /\ response.body.wordCount = word_count

C7_Witness ==
    /\ pc = "done"
    /\ summary # None
    /\ YT_API_KEY # None
    /\ metaResult.kind = "raise"
    /\ response.status = 200

\* C8: the identifier is the 11 characters after the leftmost "v=" that 11
\* identifier characters follow; without such a place, those after the leftmost
\* such "youtu.be/"; without that, those after the leftmost such "embed/"; and None
\* exactly when there is no such place at all. The three supported shapes of a URL
\* with the same token give that token.
C8_FirstPatternWins ==
    (pc # "recv" /\ Truthy(url)) =>
        LET s == url.v
        IN  /\ vid = IF Hits(PAT_V, s) # {} THEN Str(Captured(PAT_V, s))
                     ELSE IF Hits(PAT_YOUTU_BE, s) # {} THEN Str(Captured(PAT_YOUTU_BE, s))
                     ELSE IF Hits(PAT_EMBED, s) # {} THEN Str(Captured(PAT_EMBED, s))
                     ELSE None
            /\ (vid = None) <=>
                  (Hits(PAT_V, s) \cup Hits(PAT_YOUTU_BE, s) \cup Hits(PAT_EMBED, s) = {})
            /\ vid # None => Len(vid.v) = IdLen
            /\ \A tok \in {TOK_A, TOK_B} :
                  (s \in {SEG_HOST \o SEG_WATCH \o PAT_V \o tok,
                          PAT_YOUTU_BE \o tok,
                          SEG_HOST \o PAT_EMBED \o tok}) => vid = Str(tok)

\* a URL in which "embed/" and a token come before "v=" and another token
C8_Witness ==
    /\ pc = "en"
    /\ url = Str(PAT_EMBED \o TOK_A \o PAT_V \o TOK_B)
    /\ vid = Str(TOK_B)

\* 'point one'
TXT_POINT_ONE ==
    <<"p","o","i","n","t"," ","o","n","e">>

\* 'x'
TXT_X ==
    <<"x">>

\* a line starts the bullets: "-" or U+2022, then whitespace
StartsBullets(line) ==
    /\ Len(line) >= 2
    /\ line[1] = "-" \/ line[1] = BULLET
    /\ line[2] \in Whitespace

\* a line of the bullets without its prefix
Stripped(line) == strip(lstrip(line, {"-", BULLET, " "}))

NotEmpty(s) == s # <<>>

\* C9: with i the first line that starts the bullets, the summary is the lines
\* before i joined by single spaces and trimmed, and the bullets are the lines from
\* i on, each stripped, in order, whether or not they start with a bullet; keyPoints
\* are the bullets that are not empty; without such a line keyPoints is empty and
\* the summary is all lines joined.
C9_OneWayLatch ==
    (pc \in {"meta", "done"} /\ summary # None) =>
        LET lines == split_on(out.v, "\n", <<>>)
            n == Len(lines)
            starts == {k \in 1..n : StartsBullets(lines[k])}
            i == IF starts = {} THEN n + 1
                 ELSE CHOOSE k \in starts : \A j \in starts : k <= j
            after == [k \in 1..(n + 1 - i) |-> Stripped(lines[i + k - 1])]
        IN  /\ summary.v = strip(join(<<" ">>, SubSeq(lines, 1, i - 1)))
            /\ Len(bullets) = n + 1 - i
            /\ \A k \in 1..Len(bullets) : bullets[k] = after[k]
            /\ (pc = "done") =>
                  /\ response.status = 200
                  /\ response.body.summary = summary.v
                  /\ response.body.keyPoints = SelectSeq(after, NotEmpty)
                  /\ \A k \in 1..Len(response.body.keyPoints) :
                        response.body.keyPoints[k] # <<>>
                  /\ (starts = {}) =>
                        /\ response.body.keyPoints = <<>>
                        /\ response.body.summary = strip(join(<<" ">>, lines))

\* prose, a bullet, then a line that does not start with a bullet
C9_Witness ==
    /\ pc = "done"
    /\ out = Str(LINE_PROSE \o <<"\n">> \o LINE_DASH \o <<"\n">> \o LINE_NOSPACE)
    /\ response.status = 200
    /\ response.body.summary = LINE_PROSE
    /\ response.body.keyPoints = <<TXT_POINT_ONE, TXT_X>>

\* C10: the Hindi retrieval is made when, and only when, the English one failed
\* with an error other than TranscriptsDisabled, and at most once; when it
\* succeeds its entries are the transcript and the request goes on to the
\* summarizer with the Hindi text.
C10_HindiFallback ==
    /\ TimesCalled("list_transcripts") <= 1
    /\ (TimesCalled("list_transcripts") = 1) <=> (hiResult # NotCalled)
    /\ (hiResult # NotCalled) => EnglishFailedOtherwise
    /\ EnglishFailedOtherwise => (pc = "hi" \/ hiResult # NotCalled)
    /\ (hiResult.kind = "ok") =>
          /\ transcript = List(HI_ENTRIES)
          /\ trimmed = Str(TXT_NAMASTE \o <<" ">> \o TXT_JI)
          /\ raised = NotCalled \/ geminiResp # NotCalled
          /\ pc = "gemini" \/ Called("generateContent")

C10_Witness ==
    /\ pc = "done"
    /\ EnglishFailedOtherwise
    /\ hiResult.kind = "ok"
    /\ Called("generateContent")
    /\ response.status = 200
    /\ response.body.transcript = TXT_NAMASTE \o <<" ">> \o TXT_JI

=============================================================================
